---- MODULE Spec2Model ----
(***************************************************************************)
(* The event bus of LordFokas/event-bus as a state machine: the static     *)
(* key slot of the event classes, the buses' channels and hierarchy        *)
(* caches, the listeners' recorded channel keys, the events' state and     *)
(* promises, and the call stack of the dispatches in progress.             *)
(*                                                                         *)
(* The program is single threaded: a state of the model is a point where   *)
(* user code runs, either the main program (empty stack) or the callback   *)
(* of the listener under the cursor of the top frame.  Every action is one *)
(* call user code makes, run to the next point where user code runs.       *)
(*                                                                         *)
(* Module load order: Event.ts reads `root` from EventBus.ts in a static   *)
(* initializer, so the modules load Event.ts first (the other order stops  *)
(* at load with root unset); Init is the state after that load.           *)
(***************************************************************************)
EXTENDS Integers, Sequences, FiniteSets, TLC

\* ---------------------------------------------------------------- bounds
MaxListeners == 2
MaxEvents == 2
MaxDepth == 2
MaxLinkDepth == 2
MaxFinish == 2

\* ------------------------------------------------------------- constants
Nice_MIN_VALUE == -20000
Nice_PRE_PROCESS == -10000
Nice_DEFAULT == 0
Nice_MAX_VALUE == 20000

Listeners == 1 .. MaxListeners
Events == 1 .. MaxEvents
NoEvent == 0
Buses == {"global", "other"}
GLOBAL == "global"

\* The priorities the listeners of the model are constructed with.
NiceValues == {Nice_PRE_PROCESS, Nice_DEFAULT}

\* The declared event classes: class A extends Event, class B extends A.
Classes == {"Event", "A", "B"}
NoClass == "null"

\* The class of event e (new B(), new A(), ...).
ClassOfEvent(e) == IF e % 2 = 1 THEN "B" ELSE "A"

\* The class listener l is written for (EventListener<A>, ...), which the
\* scenarios that fix a listener's type subscribe it to.
ListenerClass(l) ==
  CASE l % 3 = 1 -> "A"
    [] l % 3 = 2 -> "Event"
    [] OTHER -> "B"

\* Object.getPrototypeOf(cls): where a static property missing on cls is
\* looked up next. Event and Object inherit from Function.prototype, which
\* has no [key].
StaticProto(cls) ==
  CASE cls = "B" -> "A"
    [] cls = "A" -> "Event"
    [] OTHER -> NoClass

\* Object.getPrototypeOf(cls.prototype).constructor; Object.prototype has a
\* null prototype.
SuperClass(cls) ==
  CASE cls = "B" -> "A"
    [] cls = "A" -> "Event"
    [] cls = "Event" -> "Object"
    [] OTHER -> NoClass

RECURSIVE IsSubclass(_, _)
\* sub is sup or a (transitive) subclass of it.
IsSubclass(sub, sup) ==
  IF sub = sup THEN TRUE
  ELSE IF sub \notin Classes \/ sub = "Event" THEN FALSE
  ELSE IsSubclass(SuperClass(sub), sup)

\* Symbols. root is the exported Symbol("Event [root]"); Symbol() made by
\* key() for class cls is made at most once per class (the own slot is
\* truthy afterwards), so the class names it.
root == <<"Event [root]">>
SymbolOf(cls) == <<"Symbol", cls>>
Undefined == <<>>

\* Maps with a growing domain (JS objects used as records).
Has(m, k) == k \in DOMAIN m
Put(m, k, v) == [x \in (DOMAIN m) \cup {k} |-> IF x = k THEN v ELSE m[x]]

Contains(s, x) == \E i \in 1 .. Len(s) : s[i] = x
Without(s, x) == SelectSeq(s, LAMBDA y : y # x)

\* EventStatus
RUNNING == [finished |-> FALSE, aborted |-> FALSE, stopped |-> FALSE]
FINISHED == [finished |-> TRUE, aborted |-> FALSE, stopped |-> FALSE]
STOPPED == [finished |-> TRUE, aborted |-> FALSE, stopped |-> TRUE]
ABORTED == [finished |-> TRUE, aborted |-> TRUE, stopped |-> FALSE]

ListenerErrorReason == "Aborted due to error during listener execution"
NoReason == "undefined"
StopReasons == {"done"}
AbortReasons == {"veto"}

Pending == [state |-> "pending", event |-> NoEvent, reason |-> NoReason]

VARIABLES
  slot,        \* class -> its own static [key] property, where it has one
  nice,        \* listener -> _nice
  lchannels,   \* listener -> $channels
  channels,    \* bus -> (key -> listeners)
  hierarchy,   \* bus -> (key -> keys)
  logged,      \* bus -> (event -> number of calls of its log hook with it)
  status,      \* event -> [$].status
  reason,      \* event -> [$].reason
  parent,      \* event -> [$].parent
  depth,       \* event -> [$].depth
  deliveries,  \* event -> [$].deliveries
  ebus,        \* event -> [$].bus
  promise,     \* event -> the event whose constructor made this.promise
  resolver,    \* event -> the event whose constructor made this.resolver
  settled,     \* event -> the state of the promise its constructor made
  stack,       \* the dispatches in progress, outermost first
  error,       \* what the last call threw to its caller ("none": it returned);
               \* NoHierarchy, NoChannel and NoPrototype are the TypeErrors of
               \* reading hierarchy[key], channels[key] and a null prototype
  subs,        \* bus -> the subscriptions in force, in the order made
  finishCalls  \* event -> number of calls of finish() user code made on it

vars == <<slot, nice, lchannels, channels, hierarchy, logged, status, reason,
          parent, depth, deliveries, ebus, promise, resolver, settled, stack,
          error, subs, finishCalls>>

registry == <<slot, lchannels, channels, hierarchy, subs>>
eventState == <<status, reason, deliveries, settled, logged>>
links == <<parent, depth, ebus, promise, resolver>>

Init ==
  /\ slot = [c \in {"Event"} |-> root]
  /\ nice \in [Listeners -> NiceValues]
  /\ lchannels = [l \in Listeners |-> <<>>]
  /\ channels = [b \in Buses |-> [k \in {root} |-> <<>>]]
  /\ hierarchy = [b \in Buses |-> [k \in {root} |-> <<root>>]]
  /\ logged = [b \in Buses |-> [e \in Events |-> 0]]
  /\ status = [e \in Events |-> RUNNING]
  /\ reason = [e \in Events |-> NoReason]
  /\ parent = [e \in Events |-> NoEvent]
  /\ depth = [e \in Events |-> 0]
  /\ deliveries = [e \in Events |-> <<>>]
  /\ ebus = [e \in Events |-> GLOBAL]
  /\ promise = [e \in Events |-> e]
  /\ resolver = [e \in Events |-> e]
  /\ settled = [e \in Events |-> Pending]
  /\ stack = <<>>
  /\ error = "none"
  /\ subs = [b \in Buses |-> <<>>]
  /\ finishCalls = [e \in Events |-> 0]

\* ------------------------------------------------------------ Event.key
\* Mutant: the class's own slot only, no inherited static property.
LookupOwn(s, cls) == IF cls # NoClass /\ Has(s, cls) THEN s[cls] ELSE Undefined

RECURSIVE Lookup(_, _)
\* this[key] read on class cls: its own slot, else the slot it inherits.
Lookup(s, cls) ==
  IF cls = NoClass THEN Undefined
  ELSE IF Has(s, cls) THEN s[cls]
  ELSE Lookup(s, StaticProto(cls))

\* The slots after cls.key(): a class that reads no key gets a new Symbol.
KeySlot(s, cls) ==
  IF Lookup(s, cls) = Undefined THEN Put(s, cls, SymbolOf(cls)) ELSE s

\* What cls.key() returns.
KeyOf(s, cls) == Lookup(KeySlot(s, cls), cls)

\* --------------------------------------------------- EventBus.calculate
RECURSIVE Calculate(_, _, _)
\* st = [slot, hier, chan, err]: the slots and one bus's hierarchy and
\* channels, and what was thrown.
Calculate(st, key, cls) ==
  IF st.err # "none" \/ Has(st.hier, key) THEN st
  ELSE
    LET superEvent == SuperClass(cls) IN
    IF superEvent = NoClass THEN [st EXCEPT !.err = "NoPrototype"]
    ELSE
      LET s1 == KeySlot(st.slot, superEvent)
          superKey == KeyOf(st.slot, superEvent)
          st1 == [st EXCEPT !.slot = s1]
          st2 == IF ~Has(st1.hier, superKey)
                 THEN Calculate(st1, superKey, superEvent)
                 ELSE st1
      IN
      IF st2.err # "none" THEN st2
      ELSE [st2 EXCEPT
             !.hier = Put(st2.hier, key, Append(st2.hier[superKey], key)),
             !.chan = IF Has(st2.chan, key) THEN st2.chan
                      ELSE Put(st2.chan, key, <<>>)]

\* --------------------------------------------------- EventBus.subscribe
\* [slot, hier, chan, lch, err] after bus.subscribe(type, listener), where
\* hier and chan are the bus's and lch is the listener's $channels.
SubscribeResult(b, type, l) ==
  LET s1 == KeySlot(slot, type)
      key == KeyOf(slot, type)
      st0 == [slot |-> s1, hier |-> hierarchy[b], chan |-> channels[b],
              err |-> "none"]
      st == IF ~Has(channels[b], key) THEN Calculate(st0, key, type) ELSE st0
      base == [slot |-> st.slot, hier |-> st.hier, chan |-> st.chan,
               lch |-> lchannels[l], err |-> st.err]
  IN
  IF st.err # "none" THEN base
  ELSE IF Has(channels[b], key) /\ Contains(channels[b][key], l)
  THEN [base EXCEPT !.err = "Duplicate"]
  ELSE IF ~Has(st.chan, key) THEN [base EXCEPT !.err = "NoChannel"]
  ELSE [base EXCEPT !.chan = Put(st.chan, key, Append(st.chan[key], l)),
                    !.lch = Append(lchannels[l], key)]

\* ------------------------------------------------- EventBus.unsubscribe
RECURSIVE RemoveFrom(_, _, _)
\* [chan, err] after the map over $channels = keys on a bus's channels.
RemoveFrom(chan, keys, l) ==
  IF keys = <<>> THEN [chan |-> chan, err |-> "none"]
  ELSE IF ~Has(chan, Head(keys)) THEN [chan |-> chan, err |-> "NoChannel"]
  ELSE RemoveFrom([chan EXCEPT ![Head(keys)] = Without(chan[Head(keys)], l)],
                  Tail(keys), l)

UnsubscribeResult(b, l) ==
  LET r == RemoveFrom(channels[b], lchannels[l], l) IN
  [chan |-> r.chan, err |-> r.err,
   lch |-> IF r.err = "none" THEN <<>> ELSE lchannels[l]]

\* ----------------------------------------------------- EventBus.publish
RECURSIVE Flat(_, _)
\* hierarchy[key].map(k => channels[k]).flat()
Flat(chan, keys) ==
  IF keys = <<>> THEN <<>>
  ELSE (IF Has(chan, Head(keys)) THEN chan[Head(keys)] ELSE <<>>)
       \o Flat(chan, Tail(keys))

\* Mutant: l goes in front of the listeners of its own priority.
InsertByNiceUnstable(sorted, l) ==
  LET before == SelectSeq(sorted, LAMBDA x : nice[x] < nice[l])
      after == SelectSeq(sorted, LAMBDA x : nice[x] >= nice[l])
  IN before \o <<l>> \o after

\* Where a stable sort by a.nice() - b.nice() puts l among sorted ones:
\* behind every listener whose nice is not greater.
InsertByNice(sorted, l) ==
  LET before == SelectSeq(sorted, LAMBDA x : nice[x] <= nice[l])
      after == SelectSeq(sorted, LAMBDA x : nice[x] > nice[l])
  IN before \o <<l>> \o after

RECURSIVE SortFrom(_, _)
SortFrom(sorted, rest) ==
  IF rest = <<>> THEN sorted
  ELSE SortFrom(InsertByNice(sorted, Head(rest)), Tail(rest))

\* Mutant: the pool is not sorted.
SortNone(s) == s

\* Array.prototype.sort((a, b) => a.nice() - b.nice()): stable, ascending.
SortByNice(s) == SortFrom(<<>>, s)

\* The listeners a dispatch of an event with this key runs, in order.
Pool(b, key) == SortByNice(Flat(channels[b], hierarchy[b][key]))

\* Mutant: the bus dispatches whatever the event's status.
BusRejectsNever(e) == FALSE

\* The check that opens EventBus.publish.
BusRejects(e) == status[e].finished

\* -------------------------------------------------------------- Event
\* A variant of FinishStatus that leaves the status as it is.
FinishStatusKeep(st) == st

\* [$].status after finish().
FinishStatus(st) == IF ~st.finished THEN FINISHED ELSE st

\* A variant of CallResolver for a promise that could be settled again.
CallResolverAgain(pr, r, success, reasons) ==
  [pr EXCEPT ![r] =
     IF success
     THEN [state |-> "resolved", event |-> r, reason |-> NoReason]
     ELSE [state |-> "rejected", event |-> NoEvent, reason |-> reasons[r]]]

\* The promises after the resolver made by event r's constructor is called
\* with success, reasons being the events' reasons then: it settles r's
\* promise, which settles once.
CallResolver(pr, r, success, reasons) ==
  IF pr[r].state # "pending" THEN pr
  ELSE [pr EXCEPT ![r] =
          IF success
          THEN [state |-> "resolved", event |-> r, reason |-> NoReason]
          ELSE [state |-> "rejected", event |-> NoEvent, reason |-> reasons[r]]]

\* A variant of delivered that records nothing.
DeliveredNever(d, e, l) == d

\* The delivery logs d after event e's delivered(listener).
Delivered(d, e, l) == [d EXCEPT ![e] = Append(@, l)]

\* A variant of ExecuteReturns that reads the status of every event.
ExecuteReturnsAny(e) == \E x \in Events : status[x].finished

\* What execute() returns to some() when the callback has returned:
\* event.status().finished; true ends the iteration.
ExecuteReturns(e) == status[e].finished

\* ------------------------------------------------------------- actions
Top == stack[Len(stack)]
Pop == SubSeq(stack, 1, Len(stack) - 1)

\* bus.subscribe(type, listener), from the main program or from a callback.
Subscribe(b, type, l) ==
  LET r == SubscribeResult(b, type, l) IN
  /\ slot' = r.slot
  /\ hierarchy' = [hierarchy EXCEPT ![b] = r.hier]
  /\ channels' = [channels EXCEPT ![b] = r.chan]
  /\ lchannels' = [lchannels EXCEPT ![l] = r.lch]
  /\ subs' = IF r.err = "none"
             THEN [subs EXCEPT ![b] = Append(@, [listener |-> l, type |-> type])]
             ELSE subs
  /\ error' = r.err
  /\ UNCHANGED <<nice, finishCalls, eventState, links, stack>>

\* bus.unsubscribe(listener).
Unsubscribe(b, l) ==
  LET r == UnsubscribeResult(b, l) IN
  /\ channels' = [channels EXCEPT ![b] = r.chan]
  /\ lchannels' = [lchannels EXCEPT ![l] = r.lch]
  /\ subs' = IF r.err = "none"
             THEN [subs EXCEPT ![b] = SelectSeq(@, LAMBDA x : x.listener # l)]
             ELSE subs
  /\ error' = r.err
  /\ UNCHANGED <<slot, hierarchy, nice, finishCalls, eventState, links, stack>>

\* The end of a dispatch of e on bus b, the events' status and reasons being st and
\* rs: event.finish(), this.log(event), and the return to the publisher.
EndDispatch(b, e, st, rs, frames) ==
  LET st2 == [st EXCEPT ![e] = FinishStatus(st[e])] IN
  /\ status' = st2
  /\ reason' = rs
  /\ settled' = CallResolver(settled, resolver[e], ~st2[e].aborted, rs)
  /\ logged' = [logged EXCEPT ![b][e] = @ + 1]
  /\ stack' = frames
  /\ error' = "none"

\* bus.publish(event) past its check: the pool is built and sorted, and the
\* first listener is called, or the event is finished at once.
Dispatch(b, e) ==
  LET s1 == KeySlot(slot, ClassOfEvent(e))
      key == KeyOf(slot, ClassOfEvent(e))
  IN
  /\ slot' = s1
  /\ UNCHANGED <<nice, finishCalls, lchannels, channels, hierarchy, subs, links>>
  /\ IF ~Has(hierarchy[b], key)
     THEN /\ error' = "NoHierarchy"
          /\ UNCHANGED <<eventState, stack>>
     ELSE LET pool == Pool(b, key) IN
          IF pool = <<>>
          THEN /\ EndDispatch(b, e, status, reason, stack)
               /\ UNCHANGED deliveries
          ELSE /\ Len(stack) < MaxDepth
               /\ stack' = Append(stack, [bus |-> b, event |-> e,
                                          pool |-> pool, idx |-> 1])
               /\ deliveries' = Delivered(deliveries, e, pool[1])
               /\ error' = "none"
               /\ UNCHANGED <<status, reason, settled, logged>>

\* bus.publish(event)
BusPublish(b, e) ==
  IF BusRejects(e)
  THEN /\ error' = "AlreadyProcessed"
       /\ UNCHANGED <<registry, nice, finishCalls, eventState, links, stack>>
  ELSE Dispatch(b, e)

\* event.publish()
EventPublish(e) ==
  IF status[e].finished
  THEN /\ error' = "AlreadyFinished"
       /\ UNCHANGED <<registry, nice, finishCalls, eventState, links, stack>>
  ELSE BusPublish(ebus[e], e)

\* The running callback returns: execute() returns the finished flag, and
\* some() goes on to the next listener or stops.
Return ==
  /\ stack # <<>>
  /\ LET f == Top
         e == f.event
     IN
     IF ExecuteReturns(e) \/ f.idx = Len(f.pool)
     THEN /\ EndDispatch(f.bus, e, status, reason, Pop)
          /\ UNCHANGED deliveries
     ELSE /\ stack' = [stack EXCEPT ![Len(stack)].idx = f.idx + 1]
          /\ deliveries' = Delivered(deliveries, e, f.pool[f.idx + 1])
          /\ error' = "none"
          /\ UNCHANGED <<status, reason, settled, logged>>
  /\ UNCHANGED <<registry, nice, finishCalls, links>>

\* The running callback throws: execute() aborts the event and returns true.
Throw ==
  /\ stack # <<>>
  /\ LET e == Top.event IN
     EndDispatch(Top.bus, e, [status EXCEPT ![e] = ABORTED],
                 [reason EXCEPT ![e] = ListenerErrorReason], Pop)
  /\ UNCHANGED <<registry, nice, finishCalls, links, deliveries>>

\* event.stop(reason)
Stop(e, r) ==
  /\ status' = [status EXCEPT ![e] = STOPPED]
  /\ reason' = [reason EXCEPT ![e] = r]
  /\ error' = "none"
  /\ UNCHANGED <<registry, nice, finishCalls, links, deliveries, settled, logged, stack>>

\* event.abort(reason)
Abort(e, r) ==
  /\ status' = [status EXCEPT ![e] = ABORTED]
  /\ reason' = [reason EXCEPT ![e] = r]
  /\ error' = "none"
  /\ UNCHANGED <<registry, nice, finishCalls, links, deliveries, settled, logged, stack>>

\* event.finish(), called by user code.
Finish(e) ==
  LET st2 == [status EXCEPT ![e] = FinishStatus(status[e])] IN
  /\ finishCalls[e] < MaxFinish
  /\ finishCalls' = [finishCalls EXCEPT ![e] = @ + 1]
  /\ status' = st2
  /\ settled' = CallResolver(settled, resolver[e], ~st2[e].aborted, reason)
  /\ error' = "none"
  /\ UNCHANGED <<registry, nice, links, reason, deliveries, logged, stack>>

\* event.parent(p)
SetParent(c, p) ==
  /\ depth[p] < MaxLinkDepth
  /\ parent' = [parent EXCEPT ![c] = p]
  /\ depth' = [depth EXCEPT ![c] = depth[p] + 1]
  /\ error' = "none"
  /\ UNCHANGED <<registry, nice, finishCalls, eventState, ebus, promise, resolver, stack>>

\* event.with(src), src an event: Object.assign copies src's own enumerable
\* properties, which are its promise and resolver fields ([$] is not
\* enumerable) and its payload.
With(c, src) ==
  /\ promise' = [promise EXCEPT ![c] = promise[src]]
  /\ resolver' = [resolver EXCEPT ![c] = resolver[src]]
  /\ error' = "none"
  /\ UNCHANGED <<registry, nice, finishCalls, eventState, ebus, parent, depth, stack>>

\* event.inherit(p) = this.parent(p).with(p)
Inherit(c, p) ==
  /\ depth[p] < MaxLinkDepth
  /\ parent' = [parent EXCEPT ![c] = p]
  /\ depth' = [depth EXCEPT ![c] = depth[p] + 1]
  /\ promise' = [promise EXCEPT ![c] = promise[p]]
  /\ resolver' = [resolver EXCEPT ![c] = resolver[p]]
  /\ error' = "none"
  /\ UNCHANGED <<registry, nice, finishCalls, eventState, ebus, stack>>

\* event.bus(b)
SetBus(e, b) ==
  /\ ebus' = [ebus EXCEPT ![e] = b]
  /\ error' = "none"
  /\ UNCHANGED <<registry, nice, finishCalls, eventState, parent, depth, promise, resolver, stack>>

Next ==
  \/ \E b \in Buses, t \in Classes, l \in Listeners : Subscribe(b, t, l)
  \/ \E b \in Buses, l \in Listeners : Unsubscribe(b, l)
  \/ \E e \in Events : EventPublish(e)
  \/ \E b \in Buses, e \in Events : BusPublish(b, e)
  \/ Return
  \/ Throw
  \/ \E e \in Events, r \in StopReasons : Stop(e, r)
  \/ \E e \in Events, r \in AbortReasons : Abort(e, r)
  \/ \E e \in Events : Finish(e)
  \/ \E c \in Events, p \in Events : SetParent(c, p)
  \/ \E c \in Events, p \in Events : With(c, p)
  \/ \E c \in Events, p \in Events : Inherit(c, p)
  \/ \E e \in Events, b \in Buses : SetBus(e, b)

Spec == Init /\ [][Next]_vars

\* ----------------------------------------------------------- scenarios
\* Spec lets user code make any call at any point. Its objects multiply
\* (every event and every bus carries its own state), so the claims are
\* checked under specifications whose next-state relations are parts of
\* Next: each takes the calls a group of claims is about, and a behaviour of
\* any of them is a behaviour of Spec.

\* Event e has not been published, stopped, aborted or finished.
Untouched(e) ==
  /\ status[e] = RUNNING
  /\ deliveries[e] = <<>>
  /\ \A b \in Buses : logged[b][e] = 0
  /\ settled[e] = Pending

\* No event but e has been used, no bus but b.
OnlyEvent(e) == \A x \in Events \ {e} : Untouched(x)
OnlyBus(b) ==
  \A o \in Buses \ {b} : channels[o] = [k \in {root} |-> <<>>] /\ subs[o] = <<>>

\* The main program has published nothing yet.
Setup == stack = <<>> /\ \A e \in Events : Untouched(e)

\* The main program subscribes and unsubscribes listeners on one bus, to
\* any classes, and then publishes one event on it; the callbacks return,
\* throw, stop or abort the event. A publish from a callback is a
\* re-publish of the finished event. (What a dispatch runs depends on the
\* registry as it is when the dispatch starts, and the registry the main
\* program builds first is any registry the calls can build.)
NextOrder ==
  \/ \E b \in Buses, t \in Classes, l \in Listeners :
       Setup /\ OnlyBus(b) /\ Subscribe(b, t, l)
  \/ \E b \in Buses, l \in Listeners :
       Setup /\ OnlyBus(b) /\ Unsubscribe(b, l)
  \/ \E e \in Events :
       /\ OnlyBus(ebus[e]) /\ OnlyEvent(e)
       /\ stack = <<>> \/ status[e].finished
       /\ EventPublish(e)
  \/ \E b \in Buses, e \in Events :
       /\ OnlyBus(b) /\ OnlyEvent(e)
       /\ stack = <<>> \/ status[e].finished
       /\ BusPublish(b, e)
  \/ Return
  \/ Throw
  \/ \E r \in StopReasons : stack # <<>> /\ Stop(Top.event, r)
  \/ \E r \in AbortReasons : stack # <<>> /\ Abort(Top.event, r)

SpecOrder == Init /\ [][NextOrder]_vars

\* The same with callbacks that end: publish is synchronous, so once the
\* running callback returns or throws, some() goes on at once.
SpecOrderFair == SpecOrder /\ WF_vars(Return \/ Throw)

\* The main program subscribes the listeners on one bus, each to the class
\* it is written for, and publishes; the callbacks publish too (the event
\* they are called with or another one, to MaxDepth dispatches in
\* progress), stop and abort any event, return and throw.
NextNested ==
  \/ \E b \in Buses, l \in Listeners :
       Setup /\ OnlyBus(b) /\ Subscribe(b, ListenerClass(l), l)
  \/ \E b \in Buses, l \in Listeners :
       Setup /\ OnlyBus(b) /\ Unsubscribe(b, l)
  \/ \E e \in Events : OnlyBus(ebus[e]) /\ EventPublish(e)
  \/ \E b \in Buses, e \in Events : OnlyBus(b) /\ BusPublish(b, e)
  \/ Return
  \/ Throw
  \/ \E e \in Events, r \in StopReasons : stack # <<>> /\ Stop(e, r)
  \/ \E e \in Events, r \in AbortReasons : stack # <<>> /\ Abort(e, r)

SpecNested == Init /\ [][NextNested]_vars

\* The listeners are subscribed on the global bus; the main program and
\* the callbacks call stop(), abort(), finish() and publish() on any event
\* at any point.
NextLifecycle ==
  \/ \E l \in Listeners : Setup /\ Subscribe(GLOBAL, ListenerClass(l), l)
  \/ \E e \in Events : EventPublish(e)
  \/ Return
  \/ Throw
  \/ \E e \in Events, r \in StopReasons : Stop(e, r)
  \/ \E e \in Events, r \in AbortReasons : Abort(e, r)
  \/ \E e \in Events : Finish(e)

SpecLifecycle == Init /\ [][NextLifecycle]_vars

\* The main program builds events from one another (parent(), with(),
\* inherit()) before and between publishes on the global bus; the
\* callbacks return, throw or stop their event.
NextLinks ==
  \/ \E l \in Listeners : Setup /\ Subscribe(GLOBAL, ListenerClass(l), l)
  \/ \E c \in Events, p \in Events : stack = <<>> /\ SetParent(c, p)
  \/ \E c \in Events, p \in Events : stack = <<>> /\ Inherit(c, p)
  \/ \E c \in Events, p \in Events : stack = <<>> /\ With(c, p)
  \/ \E e \in Events : stack = <<>> /\ EventPublish(e)
  \/ Return
  \/ Throw
  \/ \E r \in StopReasons : stack # <<>> /\ Stop(Top.event, r)

SpecLinks == Init /\ [][NextLinks]_vars

\* The registry alone: any subscribe and unsubscribe on any bus.
\* The main program alone, no listener subscribed: it links fresh events,
\* then stops, aborts and publishes them, and calls finish() itself.
NextFinish ==
  \/ \E e \in Events : EventPublish(e)
  \/ \E e \in Events, r \in StopReasons : Stop(e, r)
  \/ \E e \in Events, r \in AbortReasons : Abort(e, r)
  \/ \E e \in Events : Finish(e)
  \/ \E c \in Events, p \in Events : Setup /\ Inherit(c, p)

SpecFinish == Init /\ [][NextFinish]_vars

\* The main program subscribes listeners on the global bus and publishes
\* there; the callbacks subscribe and unsubscribe listeners on the bus of
\* their dispatch, publish other events on either bus, stop any event,
\* return or throw.
NextReentrant ==
  \/ \E l \in Listeners : Setup /\ Subscribe(GLOBAL, ListenerClass(l), l)
  \/ \E e \in Events : stack = <<>> /\ BusPublish(GLOBAL, e)
  \/ \E b \in Buses, e \in Events :
       stack # <<>> /\ e # Top.event /\ BusPublish(b, e)
  \/ \E l \in Listeners :
       stack # <<>> /\ Subscribe(Top.bus, ListenerClass(l), l)
  \/ \E l \in Listeners : stack # <<>> /\ Unsubscribe(Top.bus, l)
  \/ Return
  \/ Throw
  \/ \E e \in Events, r \in StopReasons : stack # <<>> /\ Stop(e, r)

SpecReentrant == Init /\ [][NextReentrant]_vars

NextRegistry ==
  \/ \E b \in Buses, t \in Classes, l \in Listeners : Subscribe(b, t, l)
  \/ \E b \in Buses, l \in Listeners : Unsubscribe(b, l)

SpecRegistry == Init /\ [][NextRegistry]_vars

\* ------------------------------------------------------------- claims
\* The listeners of bus b with a subscription in force to class c.
SubscribedTo(b, c) ==
  {subs[b][i].listener : i \in {j \in 1 .. Len(subs[b]) : subs[b][j].type = c}}

\* On bus b the subscription in force of l1 was made before that of l2.
SubscribedBefore(b, l1, l2) ==
  \E i, j \in 1 .. Len(subs[b]) :
    i < j /\ subs[b][i].listener = l1 /\ subs[b][j].listener = l2

\* This step starts a dispatch: some() calls the first listener of a pool.
StartsDispatch == Len(stack') = Len(stack) + 1
Started == stack'[Len(stack')]

\* This step ends the dispatch of the top frame.
EndsDispatch == stack # <<>> /\ Len(stack') = Len(stack) - 1

\* The cursor of a dispatch starts at the first listener of its pool, moves
\* one listener at a time over an unchanged pool, and the dispatch ends
\* with the cursor on the last listener unless its event was finished by
\* then (stopped, aborted) or the listener under the cursor threw.
CursorVisitsAll ==
  /\ StartsDispatch => Started.idx = 1
  /\ stack # <<>> /\ Len(stack') = Len(stack) =>
       /\ Top'.bus = Top.bus /\ Top'.event = Top.event /\ Top'.pool = Top.pool
       /\ Top'.idx = Top.idx \/ Top'.idx = Top.idx + 1
       /\ Top'.idx = Top.idx + 1 =>
            deliveries'[Top.event] = Append(deliveries[Top.event], Top.pool[Top'.idx])
  /\ EndsDispatch =>
       \/ Top.idx = Len(Top.pool)
       \/ status[Top.event].finished
       \/ status'[Top.event].aborted

\* This step is a dispatch of e on bus b with an empty pool: the event is
\* finished and logged at once, no listener being called.
EmptyDispatch(b, e) == stack' = stack /\ logged'[b][e] = logged[b][e] + 1

\* The listeners with a subscription in force on bus b to the class of e
\* or to a (transitive) superclass of it.
Interested(b, e) ==
  UNION {SubscribedTo(b, c) : c \in {x \in Classes : IsSubclass(ClassOfEvent(e), x)}}

\* C1 (hierarchy inclusion): a publish never fails for want of the event
\* class's hierarchy chain, nothing being needed on the class's own channel;
\* every listener with a subscription in force on the bus to the event's
\* class or to a (transitive) superclass of it is in the pool the dispatch
\* runs; and the dispatch calls the listeners of its pool one after the
\* other and skips none unless it is halted.
HierarchyInclusion ==
  /\ [](error # "NoHierarchy")
  /\ [][/\ StartsDispatch =>
            \A l \in Interested(Started.bus, Started.event) :
              Contains(Started.pool, l)
        /\ \A b \in Buses, e \in Events :
             EmptyDispatch(b, e) => Interested(b, e) = {}
        /\ CursorVisitsAll]_vars

\* C1 witness: a listener subscribed to A runs for an event of class B
\* published on a bus where nothing is subscribed to B.
HierarchyInclusionWitness ==
  /\ stack # <<>>
  /\ ClassOfEvent(Top.event) = "B"
  /\ SubscribedTo(Top.bus, "B") = {}
  /\ Top.pool[Top.idx] \in SubscribedTo(Top.bus, "A")
  /\ error = "none"

\* C2 (priority order): in every dispatch, of two listeners called so far
\* the one with the lower priority value was called first.
PriorityOrder ==
  \A f \in 1 .. Len(stack) :
    \A i, j \in 1 .. stack[f].idx :
      nice[stack[f].pool[i]] < nice[stack[f].pool[j]] => i < j

\* C2 witness: the second listener called has the higher priority value
\* and was subscribed before the first one called.
PriorityOrderWitness ==
  /\ stack # <<>>
  /\ Top.idx = 2
  /\ nice[Top.pool[1]] < nice[Top.pool[2]]
  /\ SubscribedBefore(Top.bus, Top.pool[2], Top.pool[1])

\* C3 (stable tie-break): the pool a dispatch starts with holds listeners of
\* equal priority in the order their subscriptions in force were made, and
\* the dispatch calls its pool in order.
StableTieBreak ==
  [][/\ StartsDispatch =>
          \A i, j \in 1 .. Len(Started.pool) :
            (i < j /\ nice[Started.pool[i]] = nice[Started.pool[j]]) =>
              /\ SubscribedBefore(Started.bus, Started.pool[i], Started.pool[j])
              /\ ~SubscribedBefore(Started.bus, Started.pool[j], Started.pool[i])
     /\ CursorVisitsAll]_vars

\* C3 witness: two listeners of equal priority have both been called, the
\* one with the greater number first (it subscribed first).
StableTieBreakWitness ==
  /\ stack # <<>>
  /\ Top.idx = 2
  /\ nice[Top.pool[1]] = nice[Top.pool[2]]
  /\ Top.pool[1] > Top.pool[2]
  /\ SubscribedBefore(Top.bus, Top.pool[1], Top.pool[2])

\* C8 (re-publish): event.publish() and bus.publish(event) on a finished
\* event throw the already-processed error, call no listener, and leave the
\* event's status, reason and delivery log as they were.
RepublishRejected ==
  [][\A e \in Events :
       status[e].finished =>
         /\ EventPublish(e) =>
              /\ error' = "AlreadyFinished"
              /\ UNCHANGED <<status, reason, deliveries, stack, logged, settled>>
         /\ \A b \in Buses :
              BusPublish(b, e) =>
                /\ error' = "AlreadyProcessed"
                /\ UNCHANGED <<status, reason, deliveries, stack, logged, settled>>]_vars

\* C8 witness: a stopped event that was delivered has been published again.
RepublishRejectedWitness ==
  \E e \in Events :
    /\ status[e] = STOPPED
    /\ deliveries[e] # <<>>
    /\ error = "AlreadyProcessed"

\* C4 (monotonic status): once an event's status is FINISHED, STOPPED or
\* ABORTED it never changes again.
StatusMonotonic ==
  [][\A e \in Events : status[e].finished => status'[e] = status[e]]_vars

\* C5 (short-circuit): once its event is finished a dispatch calls no
\* further listener, and when a dispatch ends that was halted by the
\* listener at (0-based) position i of its pool (the event stopped, aborted
\* or finished by a nested publish during that callback, or the callback
\* throwing), the event's delivery log has exactly i+1 entries.
ShortCircuit ==
  [][/\ (stack # <<>> /\ Len(stack') = Len(stack) /\ status[Top.event].finished)
          => Top'.idx = Top.idx
     /\ (EndsDispatch /\ (status[Top.event].finished \/ status'[Top.event].aborted))
          => Len(deliveries'[Top.event]) = Top.idx]_vars

\* The number of times x occurs in s.
Count(s, x) == Cardinality({i \in 1 .. Len(s) : s[i] = x})

\* C9 (single dispatch): no event is in two dispatches in progress, no
\* listener is called twice for an event, and the dispatch of an event
\* ends (finish() and the log hook) at most once.
SingleDispatch ==
  /\ \A i, j \in 1 .. Len(stack) : i < j => stack[i].event # stack[j].event
  /\ \A e \in Events, l \in Listeners : Count(deliveries[e], l) <= 1
  /\ \A e \in Events :
       Cardinality({b \in Buses : logged[b][e] > 0}) <= 1
       /\ \A b \in Buses : logged[b][e] <= 1

\* What the future of e is to be settled with, by the status and reason in
\* st and rs.
Outcome(e, st, rs) ==
  IF st[e].aborted
  THEN [state |-> "rejected", event |-> NoEvent, reason |-> rs[e]]
  ELSE [state |-> "resolved", event |-> e, reason |-> NoReason]

\* This step ends a dispatch of e.
DispatchEnds(e) == \E b \in Buses : logged'[b][e] = logged[b][e] + 1

\* C6 (future outcome): the future event.publish() returns (this.promise)
\* changes state only in the step that ends a dispatch of that event, and
\* then it is resolved with that event (FINISHED, STOPPED) or rejected with
\* that event's reason (ABORTED).
FutureOutcome ==
  [][\A e \in Events :
       /\ settled'[promise'[e]] # settled[promise[e]] => DispatchEnds(e)
       /\ DispatchEnds(e) => settled'[promise'[e]] = Outcome(e, status', reason')]_vars

\* C7 (listener failure): when the running callback throws, publish()
\* returns to the publisher, the event is ABORTED with the fixed reason, no
\* further listener is called, the dispatch ends (finish(), the log hook)
\* and the event's future is rejected with the fixed reason.
ListenerFailureContained ==
  [][(stack # <<>> /\ Throw) =>
       LET e == Top.event IN
       /\ error' = "none"
       /\ status'[e] = ABORTED
       /\ reason'[e] = ListenerErrorReason
       /\ deliveries' = deliveries
       /\ EndsDispatch
       /\ logged'[Top.bus][e] = logged[Top.bus][e] + 1
       /\ settled'[promise[e]] =
            [state |-> "rejected", event |-> NoEvent, reason |-> ListenerErrorReason]]_vars

\* C10 (duplicate subscription): no channel holds a listener twice;
\* subscribing a listener to a class it has a subscription in force to on
\* that bus throws the duplicate error and leaves the channels and the
\* listener's keys as they were; subscribing it to another class succeeds.
DuplicateSubscription ==
  /\ [](\A b \in Buses : \A k \in DOMAIN channels[b] : \A l \in Listeners :
          Count(channels[b][k], l) <= 1)
  /\ [][\A b \in Buses, t \in Classes, l \in Listeners :
          Subscribe(b, t, l) =>
            IF l \in SubscribedTo(b, t)
            THEN error' = "Duplicate" /\ UNCHANGED <<channels, lchannels>>
            ELSE error' = "none"]_vars

\* C12 (finish() is idempotent): finish() leaves the event finished and
\* its future settled, moving the status only from RUNNING to FINISHED and
\* never touching the reason; called on an event that is finished and whose
\* future is settled (as after a first call) it changes neither status,
\* reason nor any settled outcome; and a settled future never changes.
FinishIdempotent ==
  [][/\ \A e \in Events :
          Finish(e) =>
            /\ status'[e].finished
            /\ settled'[promise[e]].state # "pending"
            /\ \A x \in Events :
                 status'[x] # status[x] =>
                   x = e /\ status[e] = RUNNING /\ status'[e] = FINISHED
            /\ reason' = reason
            /\ (status[e].finished /\ settled[promise[e]].state # "pending")
                 => (status' = status /\ settled' = settled)
     /\ \A p \in Events :
          settled[p].state # "pending" => settled'[p] = settled[p]]_vars

\* finish() has been called twice on an event whose future the first call
\* resolved; the event was aborted since and its future is still resolved.
FinishIdempotentWitness ==
  \E e \in Events :
    /\ finishCalls[e] = MaxFinish
    /\ status[e] = ABORTED
    /\ settled[promise[e]].state = "resolved"

\* Bus b holds listener l in one of its channels.
InChannel(b, l) == \E k \in DOMAIN channels[b] : Contains(channels[b][k], l)

\* C11 (unsubscribe): bus.unsubscribe(listener) does not fail and leaves the
\* listener in no channel of that bus and with no recorded key; for a
\* listener subscribed on no bus it changes nothing; and a bus holds (so a
\* dispatch on it runs) only listeners subscribed on it and not
\* unsubscribed from it since.
UnsubscribeRemoves ==
  /\ [][\A b \in Buses, l \in Listeners :
          Unsubscribe(b, l) =>
            /\ error' = "none"
            /\ lchannels'[l] = <<>>
            /\ \A k \in DOMAIN channels'[b] : ~Contains(channels'[b][k], l)
            /\ (\A o \in Buses, t \in Classes : l \notin SubscribedTo(o, t))
                 => UNCHANGED <<channels, lchannels>>]_vars
  /\ [](\A b \in Buses, l \in Listeners :
          InChannel(b, l) => \E t \in Classes : l \in SubscribedTo(b, t))

\* C20 (bookkeeping across buses): the keys a listener has recorded cover
\* every channel of every bus that holds it, so that unsubscribe can remove
\* it from each of them.
KeysCoverChannels ==
  \A b \in Buses, l \in Listeners :
    \A k \in DOMAIN channels[b] :
      Contains(channels[b][k], l) => Contains(lchannels[l], k)

\* Class c has been asked for its key by a subscribe that succeeded.
Queried(c) == \E b \in Buses : SubscribedTo(b, c) # {}

\* C13 (type keys): two distinct classes that have been asked for their
\* keys have distinct keys, and the key of a class never changes.
TypeKeyUnique ==
  /\ [](\A c1, c2 \in Classes :
          (c1 # c2 /\ Queried(c1) /\ Queried(c2))
            => KeyOf(slot, c1) # KeyOf(slot, c2))
  /\ [][\A c \in Classes :
          Lookup(slot, c) # Undefined => KeyOf(slot', c) = KeyOf(slot, c)]_vars

\* C18 (delivery exactness): the pool of a dispatch of an event on a bus
\* holds only listeners with a subscription in force on that bus to the
\* event's class or to an ancestor of it.
DeliveryExact ==
  [][StartsDispatch =>
       \A i \in 1 .. Len(Started.pool) :
         Started.pool[i] \in Interested(Started.bus, Started.event)]_vars

\* C14 (depth): an event with no parent has depth 0, and an event whose
\* parent is another event p has depth p's depth + 1.
DepthConsistent ==
  \A e \in Events :
    /\ parent[e] = NoEvent => depth[e] = 0
    /\ (parent[e] # NoEvent /\ parent[e] # e) => depth[e] = depth[parent[e]] + 1

\* This step is part of a dispatch of e: it starts it, runs in it or ends it.
Acting(e) ==
  \/ DispatchEnds(e)
  \/ stack # <<>> /\ Top.event = e
  \/ stack' # <<>> /\ Top'.event = e

\* C19 (inherit isolation): a step of the dispatch of a child (an event
\* whose parent is another event p) that is no step of a dispatch of p
\* leaves p's status, reason and delivery log unchanged and does not settle
\* the promise made for p.
InheritIsolation ==
  [][\A c \in Events, p \in Events :
       (parent[c] = p /\ p # c /\ Acting(c) /\ ~Acting(p)) =>
         /\ status'[p] = status[p]
         /\ reason'[p] = reason[p]
         /\ deliveries'[p] = deliveries[p]
         /\ settled'[p] = settled[p]]_vars

\* The dispatches in progress below the top one are as they were: a call
\* made by the running callback changes no frame of an outer dispatch.
FramesKept ==
  /\ \A f \in 1 .. Len(stack) - 1 : f <= Len(stack') /\ stack'[f] = stack[f]
  /\ StartsDispatch => \A f \in 1 .. Len(stack) : stack'[f] = stack[f]
  /\ Len(stack') \in {Len(stack) - 1, Len(stack), Len(stack) + 1}

\* C15 (dispatch isolation): whatever the running callback does (subscribe,
\* unsubscribe, nested publishes, stopping other events), the frames of the
\* dispatches in progress keep their pools and cursors; a cursor moves one
\* listener at a time over the pool fixed at the start, and a dispatch ends
\* before the end of its pool only when its own event is finished or the
\* listener under its cursor threw.
DispatchIsolation == [][FramesKept /\ CursorVisitsAll]_vars

\* An outer dispatch is at its second listener, which was unsubscribed from
\* its bus during the dispatch, after a nested dispatch of another event
\* has ended stopped or aborted.
DispatchIsolationWitness ==
  /\ Len(stack) = 1
  /\ stack[1].idx = 2
  /\ ~InChannel(stack[1].bus, stack[1].pool[2])
  /\ ~status[stack[1].event].finished
  /\ \E x \in Events \ {stack[1].event} :
       /\ \E b \in Buses : logged[b][x] > 0
       /\ status[x].aborted \/ status[x].stopped

\* This step calls listener l with event e: a dispatch of e starts at l or
\* moves its cursor on to l.
Invokes(e, l) ==
  /\ stack' # <<>>
  /\ Top'.event = e
  /\ Top'.pool[Top'.idx] = l
  /\ \/ StartsDispatch
     \/ Len(stack') = Len(stack) /\ Top'.idx = Top.idx + 1

\* C16 (delivery log): a step changes the delivery log of an event exactly
\* when it calls a listener with the event, and then appends that listener;
\* a callback that throws leaves the logs as they are, its listener in the
\* log of its event; and the log of an event whose dispatch has ended
\* never changes.
DeliveryLog ==
  [][/\ \A e \in Events :
          /\ deliveries'[e] # deliveries[e] =>
               \E l \in Listeners :
                 Invokes(e, l) /\ deliveries'[e] = Append(deliveries[e], l)
          /\ \A l \in Listeners :
               Invokes(e, l) => deliveries'[e] = Append(deliveries[e], l)
          /\ (\E b \in Buses : logged[b][e] > 0) => deliveries'[e] = deliveries[e]
     /\ (stack # <<>> /\ Throw) =>
          /\ deliveries' = deliveries
          /\ Contains(deliveries'[Top.event], Top.pool[Top.idx])]_vars

\* The second listener of a pool threw: the event is aborted with the fixed
\* reason, and both listeners are in its log in the order of the pool.
DeliveryLogWitness ==
  \E e \in Events :
    /\ stack = <<>>
    /\ status[e] = ABORTED
    /\ reason[e] = ListenerErrorReason
    /\ Len(deliveries[e]) = 2
    /\ deliveries[e][1] # deliveries[e][2]

\* This step ends a dispatch of e on bus b.
EndsDispatchOf(b, e) ==
  \/ EndsDispatch /\ Top.bus = b /\ Top.event = e
  \/ EmptyDispatch(b, e)

\* C17 (debug hook): the log hook of a bus is called with an event exactly
\* in the steps that end a dispatch of the event on that bus, once, after
\* finish(): the event's status is terminal and its future settled; and a
\* dispatch in progress ends, however it ends.
DebugHook ==
  /\ [][\A b \in Buses, e \in Events :
          /\ logged'[b][e] # logged[b][e] =>
               /\ logged'[b][e] = logged[b][e] + 1
               /\ EndsDispatchOf(b, e)
               /\ status'[e].finished
               /\ settled'[promise[e]].state # "pending"
          /\ (EndsDispatch /\ Top.bus = b /\ Top.event = e) =>
               logged'[b][e] = logged[b][e] + 1]_vars
  /\ \A n \in 1 .. MaxDepth : (Len(stack) >= n) ~> (Len(stack) < n)

\* The hook was called once with an event whose second listener threw.
DebugHookWitness ==
  \E b \in Buses, e \in Events :
    /\ stack = <<>>
    /\ status[e] = ABORTED /\ reason[e] = ListenerErrorReason
    /\ logged[b][e] = 1
    /\ Len(deliveries[e]) = 2
    /\ settled[promise[e]].state = "rejected"

====
